---- MODULE Spec2Model ----
(***************************************************************************)
(* Model of one WebSocket relay session of src/src/index.ts                *)
(* (handleWebSocket, lines 83-247).                                        *)
(*                                                                         *)
(* The session state is the closure state of handleWebSocket               *)
(* (bufferedData, bufferTimeout, isUpstreamConnected, keepaliveTimer),     *)
(* the readyState of the two sockets, and the observable output of the     *)
(* relay: the frames it has sent and the close() calls it has issued on    *)
(* each socket.  Every listener and timer callback is one action.          *)
(*                                                                         *)
(* Client frames are identified by their arrival index 1, 2, 3, ...; the   *)
(* payload is opaque to the relay.  Frames arriving from the upstream are  *)
(* identified in the same way.                                             *)
(*                                                                         *)
(* Transport: a socket on which the relay has called close() is CLOSING:   *)
(* its outgoing side is shut, but frames of the peer are still delivered   *)
(* until the peer's own Close arrives (the 'close' event), as in the       *)
(* Workers runtime the code is written for.  An 'error' event kills the    *)
(* socket and may be followed by its 'close' event.                        *)
(***************************************************************************)
EXTENDS Integers, Sequences, FiniteSets, TLC

(* ---------------- program constants (index.ts:9-16) ------------------- *)
MAX_BUFFER_SIZE == 10

KEEPALIVE_MESSAGE == 0

ServerErrorCode == 1011

NoCode == -1

(* ---------------- bounds of the model --------------------------------- *)
MaxClientFrames == 12

MaxUpstreamFrames == 1

MaxTicks == 1

\* client frames still in flight when the relay calls server.close()
MaxLateFrames == 1

VARIABLES
  bufferedData,         \* index.ts:102  queue of client frames
  bufferTimeout,        \* index.ts:103  "null" | "armed" | "fired" (stale handle)
  isUpstreamConnected,  \* index.ts:104
  keepaliveTimer,       \* index.ts:107  "null" | "armed"
  upstreamReadyState,   \* upstream.readyState
  serverReadyState,     \* server.readyState
  upstreamSent,         \* frames passed to upstream.send() that did not throw
  serverSent,           \* frames passed to server.send() that did not throw
  upstreamCloses,       \* arguments of the upstream.close() calls, in order
  serverCloses,         \* arguments of the server.close() calls, in order
  clientFrames,         \* number of 'message' events delivered on server
  upstreamFrames,       \* number of 'message' events delivered on upstream
  ticks,                \* number of keepalive interval callbacks run
  lateFrames,           \* client frames delivered after server.close()
  occurred              \* history: what has happened in the session so far

vars == <<bufferedData, bufferTimeout, isUpstreamConnected, keepaliveTimer,
          upstreamReadyState, serverReadyState, upstreamSent, serverSent,
          upstreamCloses, serverCloses, clientFrames, upstreamFrames, ticks,
          lateFrames, occurred>>

ReadyStates == {"CONNECTING", "OPEN", "CLOSING", "CLOSED"}

Tags == {"open", "cleanup", "overflow", "timeout", "sendFail", "keepaliveFail",
         "serverClose", "serverError", "upstreamClose", "upstreamError"}

(* ---------------- helpers translated from the closures ---------------- *)

\* clearKeepalive: the interval is cleared and the handle set to null.
clearKeepalive(kt) == "null"

tickDisarm_Keep(kt) == kt

tickDisarm_Rearm(kt) == "armed"

\* the interval callback's disarm on a failed or impossible send.
tickDisarm(kt) == "null"

startKeepalive_Never(kt) == kt

\* startKeepalive: setInterval, handle stored.
startKeepalive(kt) == "armed"

\* clearBufferTimeout: a pending or stale handle becomes null.
clearBufferTimeout(bt) == "null"

\* startBufferTimeout: clear, then setTimeout.
startBufferTimeout(bt) == "armed"

deadlineExpired_Never(q, connected) == FALSE

\* the condition of the deadline callback (line 140).
deadlineExpired(q, connected) == Len(q) > 0 /\ ~connected

\* the condition of the live branch of the client 'message' listener.
forwardLive(connected, rs) == connected /\ rs = "OPEN"

bufferFull_OffByOne(q) == Len(q) > MAX_BUFFER_SIZE

\* the overflow test of the buffer branch.
bufferFull(q) == Len(q) >= MAX_BUFFER_SIZE

armsDeadline_Always(q) == TRUE

\* the test that arms the deadline in the buffer branch.
armsDeadline(q) == Len(q) = 0

flushSent_All(q, k) == q

\* the frames a flush sends when the k-th send throws (k = Len(q)+1: none).
flushSent(q, k) == SubSeq(q, 1, k - 1)

\* the close codes of the relay's own terminations.
overflowClose == [code |-> 1011, reason |-> "buffer_overflow"]

timeoutClose == [code |-> 1011, reason |-> "upstream_connection_timeout"]

upstreamErrorClose_WrongSide == [code |-> 1011, reason |-> "client_ws_error"]

upstreamErrorClose == [code |-> 1011, reason |-> "upstream_ws_error"]

clientErrorClose == [code |-> 1011, reason |-> "client_ws_error"]

gracefulClose_WithCode == [code |-> 1011, reason |-> ""]

gracefulClose == [code |-> NoCode, reason |-> ""]

closeSocket_Noop(rs) == rs

\* ws.close(): an open or connecting socket starts closing.
closeSocket(rs) == IF rs \in {"CONNECTING", "OPEN"} THEN "CLOSING" ELSE rs

clientOpen_Always(rs) == TRUE

\* the test of the upstream 'message' listener: server.readyState is OPEN.
clientOpen(rs) == rs = "OPEN"

\* whether a 'message' event can still be delivered on a socket.
receiving(rs) == rs \in {"OPEN", "CLOSING"}

(* ---------------- initial state: after handleWebSocket returns -------- *)
Init ==
  /\ bufferedData = << >>
  /\ bufferTimeout = "null"
  /\ isUpstreamConnected = FALSE
  /\ keepaliveTimer = "null"
  /\ upstreamReadyState = "CONNECTING"
  /\ serverReadyState = "OPEN"
  /\ upstreamSent = << >>
  /\ serverSent = << >>
  /\ upstreamCloses = << >>
  /\ serverCloses = << >>
  /\ clientFrames = 0
  /\ upstreamFrames = 0
  /\ ticks = 0
  /\ lateFrames = 0
  /\ occurred = {}

(* ---------------- upstream 'open' listener (156-174) ------------------ *)
UpstreamOpen ==
  /\ upstreamReadyState = "CONNECTING"
  /\ upstreamReadyState' = "OPEN"
  /\ isUpstreamConnected' = TRUE
  /\ \E k \in 1..(Len(bufferedData) + 1) :
       /\ upstreamSent' = upstreamSent \o flushSent(bufferedData, k)
       /\ bufferedData' = << >>
       /\ IF k <= Len(bufferedData)
            THEN \* a send threw: cleanup, close the client, return
                 /\ keepaliveTimer' = clearKeepalive(keepaliveTimer)
                 /\ bufferTimeout' = clearBufferTimeout(bufferTimeout)
                 /\ serverCloses' = Append(serverCloses, upstreamErrorClose)
                 /\ serverReadyState' = closeSocket(serverReadyState)
                 /\ occurred' = occurred \cup {"open", "sendFail", "cleanup"}
            ELSE /\ keepaliveTimer' = startKeepalive(keepaliveTimer)
                 /\ bufferTimeout' = clearBufferTimeout(bufferTimeout)
                 /\ UNCHANGED <<serverCloses, serverReadyState>>
                 /\ occurred' = occurred \cup {"open"}
  /\ UNCHANGED <<serverSent, upstreamCloses, clientFrames, upstreamFrames, ticks,
                 lateFrames>>

(* ---------------- client 'message' listener (177-198) ----------------- *)
ServerMessage ==
  /\ receiving(serverReadyState)
  /\ clientFrames < MaxClientFrames
  /\ serverReadyState = "CLOSING" => lateFrames < MaxLateFrames
  /\ clientFrames' = clientFrames + 1
  /\ lateFrames' = IF serverReadyState = "CLOSING" THEN lateFrames + 1 ELSE lateFrames
  /\ LET data == clientFrames + 1 IN
     IF forwardLive(isUpstreamConnected, upstreamReadyState)
       THEN \E ok \in BOOLEAN :
              IF ok
                THEN /\ upstreamSent' = Append(upstreamSent, data)
                     /\ UNCHANGED <<bufferedData, bufferTimeout, keepaliveTimer,
                                    serverCloses, serverReadyState, occurred>>
                ELSE /\ keepaliveTimer' = clearKeepalive(keepaliveTimer)
                     /\ bufferTimeout' = clearBufferTimeout(bufferTimeout)
                     /\ bufferedData' = << >>
                     /\ serverCloses' = Append(serverCloses, upstreamErrorClose)
                     /\ serverReadyState' = closeSocket(serverReadyState)
                     /\ occurred' = occurred \cup {"sendFail", "cleanup"}
                     /\ UNCHANGED upstreamSent
       ELSE IF bufferFull(bufferedData)
              THEN /\ keepaliveTimer' = clearKeepalive(keepaliveTimer)
                   /\ bufferTimeout' = clearBufferTimeout(bufferTimeout)
                   /\ bufferedData' = << >>
                   /\ serverCloses' = Append(serverCloses, overflowClose)
                   /\ serverReadyState' = closeSocket(serverReadyState)
                   /\ occurred' = occurred \cup {"overflow", "cleanup"}
                   /\ UNCHANGED upstreamSent
              ELSE /\ bufferTimeout' = IF armsDeadline(bufferedData)
                                         THEN startBufferTimeout(bufferTimeout)
                                         ELSE bufferTimeout
                   /\ bufferedData' = Append(bufferedData, data)
                   /\ UNCHANGED <<keepaliveTimer, serverCloses, serverReadyState,
                                  occurred, upstreamSent>>
  /\ UNCHANGED <<isUpstreamConnected, upstreamReadyState, serverSent,
                 upstreamCloses, upstreamFrames, ticks>>

(* ---------------- buffer deadline callback (139-146) ------------------ *)
BufferTimeoutFire ==
  /\ bufferTimeout = "armed"
  /\ bufferTimeout' = "fired"
  /\ IF deadlineExpired(bufferedData, isUpstreamConnected)
       THEN /\ bufferedData' = << >>
            /\ serverCloses' = Append(serverCloses, timeoutClose)
            /\ serverReadyState' = closeSocket(serverReadyState)
            /\ occurred' = occurred \cup {"timeout"}
       ELSE UNCHANGED <<bufferedData, serverCloses, serverReadyState, occurred>>
  /\ UNCHANGED <<isUpstreamConnected, keepaliveTimer, upstreamReadyState,
                 upstreamSent, serverSent, upstreamCloses, clientFrames,
                 upstreamFrames, ticks, lateFrames>>

(* ---------------- keepalive interval callback (110-120) --------------- *)
KeepaliveTick ==
  /\ keepaliveTimer = "armed"
  /\ ticks < MaxTicks
  /\ ticks' = ticks + 1
  /\ IF upstreamReadyState = "OPEN"
       THEN \E ok \in BOOLEAN :
              IF ok
                THEN /\ upstreamSent' = Append(upstreamSent, KEEPALIVE_MESSAGE)
                     /\ UNCHANGED <<keepaliveTimer, occurred>>
                ELSE /\ keepaliveTimer' = tickDisarm(keepaliveTimer)
                     /\ occurred' = occurred \cup {"keepaliveFail"}
                     /\ UNCHANGED upstreamSent
       ELSE /\ keepaliveTimer' = tickDisarm(keepaliveTimer)
            /\ UNCHANGED <<upstreamSent, occurred>>
  /\ UNCHANGED <<bufferedData, bufferTimeout, isUpstreamConnected,
                 upstreamReadyState, serverReadyState, serverSent,
                 upstreamCloses, serverCloses, clientFrames, upstreamFrames,
                 lateFrames>>

(* ---------------- upstream 'message' listener (201-210) --------------- *)
UpstreamMessage ==
  /\ receiving(upstreamReadyState)
  /\ upstreamFrames < MaxUpstreamFrames
  /\ upstreamFrames' = upstreamFrames + 1
  /\ IF clientOpen(serverReadyState)
       THEN \E ok \in BOOLEAN :
              IF ok
                THEN /\ serverSent' = Append(serverSent, upstreamFrames + 1)
                     /\ UNCHANGED <<bufferedData, bufferTimeout, keepaliveTimer,
                                    upstreamCloses, upstreamReadyState, occurred>>
                ELSE /\ keepaliveTimer' = clearKeepalive(keepaliveTimer)
                     /\ bufferTimeout' = clearBufferTimeout(bufferTimeout)
                     /\ bufferedData' = << >>
                     /\ upstreamCloses' = Append(upstreamCloses, clientErrorClose)
                     /\ upstreamReadyState' = closeSocket(upstreamReadyState)
                     /\ occurred' = occurred \cup {"sendFail", "cleanup"}
                     /\ UNCHANGED serverSent
       ELSE UNCHANGED <<bufferedData, bufferTimeout, keepaliveTimer, serverSent,
                        upstreamCloses, upstreamReadyState, occurred>>
  /\ UNCHANGED <<isUpstreamConnected, serverReadyState, upstreamSent,
                 serverCloses, clientFrames, ticks, lateFrames>>

(* ---------------- client 'close' listener (213-216) ------------------- *)
ServerClose ==
  /\ "serverClose" \notin occurred
  /\ serverReadyState # "CLOSED" \/ "serverError" \in occurred
  /\ serverReadyState' = "CLOSED"
  /\ keepaliveTimer' = clearKeepalive(keepaliveTimer)
  /\ bufferTimeout' = clearBufferTimeout(bufferTimeout)
  /\ bufferedData' = << >>
  /\ upstreamCloses' = Append(upstreamCloses, gracefulClose)
  /\ upstreamReadyState' = closeSocket(upstreamReadyState)
  /\ occurred' = occurred \cup {"serverClose", "cleanup"}
  /\ UNCHANGED <<isUpstreamConnected, upstreamSent, serverSent, serverCloses,
                 clientFrames, upstreamFrames, ticks, lateFrames>>

(* ---------------- upstream 'close' listener (218-222) ----------------- *)
UpstreamClose ==
  /\ "upstreamClose" \notin occurred
  /\ upstreamReadyState # "CLOSED" \/ "upstreamError" \in occurred
  /\ upstreamReadyState' = "CLOSED"
  /\ isUpstreamConnected' = FALSE
  /\ keepaliveTimer' = clearKeepalive(keepaliveTimer)
  /\ bufferTimeout' = clearBufferTimeout(bufferTimeout)
  /\ bufferedData' = << >>
  /\ serverCloses' = Append(serverCloses, gracefulClose)
  /\ serverReadyState' = closeSocket(serverReadyState)
  /\ occurred' = occurred \cup {"upstreamClose", "cleanup"}
  /\ UNCHANGED <<upstreamSent, serverSent, upstreamCloses, clientFrames,
                 upstreamFrames, ticks, lateFrames>>

(* ---------------- client 'error' listener (225-228) ------------------- *)
ServerError ==
  /\ serverReadyState # "CLOSED"
  /\ serverReadyState' = "CLOSED"
  /\ keepaliveTimer' = clearKeepalive(keepaliveTimer)
  /\ bufferTimeout' = clearBufferTimeout(bufferTimeout)
  /\ bufferedData' = << >>
  /\ upstreamCloses' = Append(upstreamCloses, clientErrorClose)
  /\ upstreamReadyState' = closeSocket(upstreamReadyState)
  /\ occurred' = occurred \cup {"serverError", "cleanup"}
  /\ UNCHANGED <<isUpstreamConnected, upstreamSent, serverSent, serverCloses,
                 clientFrames, upstreamFrames, ticks, lateFrames>>

(* ---------------- upstream 'error' listener (230-234) ----------------- *)
UpstreamError ==
  /\ upstreamReadyState # "CLOSED"
  /\ upstreamReadyState' = "CLOSED"
  /\ isUpstreamConnected' = FALSE
  /\ keepaliveTimer' = clearKeepalive(keepaliveTimer)
  /\ bufferTimeout' = clearBufferTimeout(bufferTimeout)
  /\ bufferedData' = << >>
  /\ serverCloses' = Append(serverCloses, upstreamErrorClose)
  /\ serverReadyState' = closeSocket(serverReadyState)
  /\ occurred' = occurred \cup {"upstreamError", "cleanup"}
  /\ UNCHANGED <<upstreamSent, serverSent, upstreamCloses, clientFrames,
                 upstreamFrames, ticks, lateFrames>>

Next ==
  \/ UpstreamOpen
  \/ ServerMessage
  \/ BufferTimeoutFire
  \/ KeepaliveTick
  \/ UpstreamMessage
  \/ ServerClose
  \/ UpstreamClose
  \/ ServerError
  \/ UpstreamError

Spec == Init /\ [][Next]_vars

\* the runtime runs a pending timer callback eventually
FairSpec == Spec /\ WF_vars(BufferTimeoutFire)

(* ---------------- typing ---------------------------------------------- *)
TypeOK ==
  /\ bufferedData \in Seq(1..MaxClientFrames)
  /\ bufferTimeout \in {"null", "armed", "fired"}
  /\ isUpstreamConnected \in BOOLEAN
  /\ keepaliveTimer \in {"null", "armed"}
  /\ upstreamReadyState \in ReadyStates
  /\ serverReadyState \in ReadyStates \ {"CONNECTING"}
  /\ occurred \subseteq Tags

(* ---------------- observation helpers ---------------------------------- *)
\* the client frames among the frames sent to the upstream, in send order
ClientSent == SelectSeq(upstreamSent, LAMBDA f : f # KEEPALIVE_MESSAGE)

KeepalivesSent == SelectSeq(upstreamSent, LAMBDA f : f = KEEPALIVE_MESSAGE)

Terminated == "cleanup" \in occurred

Reasons(closes) == {closes[i].reason : i \in 1..Len(closes)}

\* the step is the deadline callback
DeadlineFires == bufferTimeout = "armed" /\ bufferTimeout' = "fired"

\* the step is a keepalive interval callback
TickRuns == ticks' = ticks + 1

\* the step is a client 'message' event
FrameArrives == clientFrames' = clientFrames + 1

\* the relay closes one of the two sockets in the step
RelayCloses == serverCloses' # serverCloses \/ upstreamCloses' # upstreamCloses

(* ======================= C1 ============================================= *)
\* C1: the client frames sent to the upstream are the frames the client
\* sent, in arrival order, with none skipped in the middle: the i-th client
\* frame the upstream observes is the i-th frame that arrived (stated for
\* sessions in which no send threw).
C1_Ordering ==
  "sendFail" \notin occurred =>
     \A i \in 1..Len(ClientSent) : ClientSent[i] = i

(* ======================= C2 ============================================= *)
\* C2: the pending queue never holds more than MAX_BUFFER_SIZE frames, and
\* a frame arriving at a full queue is not appended: the queue is emptied
\* by teardown and the client is closed instead.
C2_Bounded ==
  /\ [](Len(bufferedData) <= MAX_BUFFER_SIZE)
  /\ [][(/\ FrameArrives
         /\ ~forwardLive(isUpstreamConnected, upstreamReadyState)
         /\ Len(bufferedData) = MAX_BUFFER_SIZE)
        => (/\ bufferedData' = << >>
            /\ serverCloses' = Append(serverCloses, overflowClose)
            /\ upstreamSent' = upstreamSent)]_vars

C2_Witness ==
  /\ "overflow" \in occurred
  /\ clientFrames = MAX_BUFFER_SIZE + 1
  /\ bufferedData = << >>

(* ======================= C3 ============================================= *)
\* C3: an overflow closes the client with reason 'buffer_overflow', and
\* once it has happened no client frame is sent to the upstream any more.
C3_NoDeliveryAfterOverflow ==
  /\ []("overflow" \in occurred => "buffer_overflow" \in Reasons(serverCloses))
  /\ [][("overflow" \in occurred) => ClientSent' = ClientSent]_vars

(* ======================= C4 ============================================= *)
\* C4: a close issued for a buffer overflow never carries the close code of
\* a close issued for the deadline timeout or for a transport error.
C4_OverflowCodeDiffers ==
  \A i, j \in 1..Len(serverCloses) :
     (/\ serverCloses[i].reason = "buffer_overflow"
      /\ serverCloses[j].reason \in {"upstream_connection_timeout",
                                     "upstream_ws_error"})
     => serverCloses[i].code # serverCloses[j].code

(* ======================= C5 ============================================= *)
\* C5: while frames are queued and the upstream is not ready, the deadline
\* is pending and eventually ends the wait (unless 'open' or a teardown
\* ends it first); when the deadline callback runs in that state it
\* discards the queue and closes the client with reason
\* 'upstream_connection_timeout'; and a close with that reason is issued
\* by no other step.
C5_Deadline ==
  /\ (Len(bufferedData) > 0 /\ ~isUpstreamConnected)
        ~> (Len(bufferedData) = 0 \/ isUpstreamConnected)
  /\ [][(DeadlineFires /\ Len(bufferedData) > 0 /\ ~isUpstreamConnected)
        => (/\ bufferedData' = << >>
            /\ serverCloses' = Append(serverCloses, timeoutClose))]_vars
  /\ [][(/\ Len(serverCloses') > Len(serverCloses)
         /\ serverCloses'[Len(serverCloses')].reason = "upstream_connection_timeout")
        => (DeadlineFires /\ Len(bufferedData) > 0 /\ ~isUpstreamConnected)]_vars

C5_Witness ==
  /\ "timeout" \in occurred
  /\ "open" \notin occurred
  /\ bufferedData = << >>
  /\ timeoutClose \in {serverCloses[i] : i \in 1..Len(serverCloses)}

(* ======================= C6 ============================================= *)
\* C6 (as stated): no keepalive frame is sent before 'open'; every tick
\* that finds the upstream open sends exactly one keepalive frame; and the
\* keepalive timer, once armed, stays armed until the relay ends the
\* session by closing a socket.
C6_KeepaliveUntilEnd ==
  /\ [](Len(KeepalivesSent) > 0 => "open" \in occurred)
  /\ [][(TickRuns /\ upstreamReadyState = "OPEN")
        => upstreamSent' = Append(upstreamSent, KEEPALIVE_MESSAGE)]_vars
  /\ [][(keepaliveTimer = "armed" /\ keepaliveTimer' # "armed")
        => RelayCloses]_vars

\* C6 (amended): no keepalive frame is sent before 'open'; a tick that
\* finds the upstream open attempts one send, which either sends exactly
\* one keepalive frame and leaves the timer armed, or throws, sends nothing
\* and disarms the timer; the timer, once armed, stays armed until the
\* relay closes a socket or a tick disarms it (failed send, or upstream not
\* open).
C6_KeepaliveAmended ==
  /\ [](Len(KeepalivesSent) > 0 => "open" \in occurred)
  /\ [][(TickRuns /\ upstreamReadyState = "OPEN")
        => \/ /\ upstreamSent' = Append(upstreamSent, KEEPALIVE_MESSAGE)
              /\ keepaliveTimer' = "armed"
           \/ /\ upstreamSent' = upstreamSent
              /\ keepaliveTimer' = "null"]_vars
  /\ [][(TickRuns /\ upstreamReadyState # "OPEN")
        => (upstreamSent' = upstreamSent /\ keepaliveTimer' = "null")]_vars
  /\ [][(keepaliveTimer = "armed" /\ keepaliveTimer' # "armed")
        => (RelayCloses \/ (TickRuns /\ upstreamSent' = upstreamSent))]_vars
  /\ [][Len(KeepalivesSent') > Len(KeepalivesSent) => TickRuns]_vars

C6_Witness ==
  /\ "open" \in occurred
  /\ ticks = 1
  /\ KeepalivesSent = <<KEEPALIVE_MESSAGE>>
  /\ Len(ClientSent) > 0
  /\ keepaliveTimer = "armed"
  /\ ~Terminated

(* ======================= C7 ============================================= *)
\* C7: in an active relay (upstream opened, no overflow, deadline expiry or
\* failed send), whatever 'close' and 'error' events arrive, the relay
\* calls close() at most once on the upstream and at most once on the
\* client socket.
C7_CloseOnce ==
  (/\ "open" \in occurred
   /\ occurred \cap {"overflow", "timeout", "sendFail", "keepaliveFail"} = {})
  => (Len(upstreamCloses) <= 1 /\ Len(serverCloses) <= 1)

(* ======================= C8 ============================================= *)
\* C8: the buffer deadline timer is pending iff the queue is non-empty and
\* isUpstreamConnected is false.
C8_DeadlineArmedIff ==
  (bufferTimeout = "armed") <=> (Len(bufferedData) > 0 /\ ~isUpstreamConnected)

(* ======================= C9 ============================================= *)
\* the session has been terminated: teardown ran (close or error of a
\* peer, overflow, fatal send error) or the deadline expired
SessionTerminated == occurred \cap {"cleanup", "timeout"} # {}

\* C9: the keepalive timer is armed iff isUpstreamConnected is true and
\* the session has not been terminated (stated for sessions in which no
\* keepalive send has thrown, which disarms the timer on its own).
C9_KeepaliveArmedIff ==
  "keepaliveFail" \notin occurred =>
     ((keepaliveTimer = "armed") <=> (isUpstreamConnected /\ ~SessionTerminated))

(* ======================= C10 ============================================ *)
\* the step delivers a client frame on a socket the relay has closed
LateFrameArrives == FrameArrives /\ serverReadyState = "CLOSING"

\* C10: once cleanup has run, both timers stay disarmed and the relay
\* sends nothing more to the upstream or to the client (stated for
\* sessions in which no send has thrown, and for every event but a client
\* frame still in flight when the relay closed the client socket).
C10_QuietAfterTeardown ==
  [][(Terminated /\ "sendFail" \notin occurred /\ ~LateFrameArrives)
     => (/\ keepaliveTimer' # "armed"
         /\ bufferTimeout' # "armed"
         /\ upstreamSent' = upstreamSent
         /\ serverSent' = serverSent)]_vars

(* ======================= C11 ============================================ *)
\* the peer of a socket the relay has closed answers the close handshake:
\* the 'close' event of a CLOSING socket is delivered eventually; a pending
\* timer callback runs eventually
ServerCloseAck == ServerClose /\ serverReadyState = "CLOSING"

UpstreamCloseAck == UpstreamClose /\ upstreamReadyState = "CLOSING"

FairCloseSpec ==
  /\ Spec
  /\ WF_vars(BufferTimeoutFire)
  /\ WF_vars(ServerCloseAck)
  /\ WF_vars(UpstreamCloseAck)

\* a failure path has been entered: overflow, deadline expiry, a failed
\* send, or a close or error of either peer
Failed ==
  occurred \cap {"overflow", "timeout", "sendFail", "serverClose",
                 "serverError", "upstreamClose", "upstreamError"} # {}

\* teardown has run and neither socket is open or connecting any more
BothClosed ==
  /\ Terminated
  /\ serverReadyState \in {"CLOSING", "CLOSED"}
  /\ upstreamReadyState \in {"CLOSING", "CLOSED"}

\* C11: every failure path leads to a state where teardown has run and
\* both sockets have been closed, and the session stays there.
C11_FailureConverges ==
  /\ Failed ~> BothClosed
  /\ [][BothClosed => BothClosed']_vars

C11_Witness ==
  /\ "timeout" \in occurred
  /\ "serverClose" \in occurred
  /\ BothClosed
  /\ Len(upstreamCloses) > 0

(* ======================= C12 ============================================ *)
\* the step is the upstream 'open' event
OpenFires == upstreamReadyState = "CONNECTING" /\ upstreamReadyState' = "OPEN"

\* the step is an upstream 'message' event
UpstreamFrameArrives == upstreamFrames' = upstreamFrames + 1

\* the step is a client frame whose live upstream.send threw
LiveSendFails ==
  /\ FrameArrives
  /\ forwardLive(isUpstreamConnected, upstreamReadyState)
  /\ upstreamSent' = upstreamSent

\* the step is an 'open' event in which a send of the flush threw
FlushFails == OpenFires /\ upstreamSent' # upstreamSent \o bufferedData

\* the step is an upstream frame whose server.send threw
ClientSendFails ==
  /\ UpstreamFrameArrives
  /\ serverReadyState = "OPEN"
  /\ serverSent' = serverSent

\* the state cleanup leaves, in the next state
CleanedUpNext ==
  /\ keepaliveTimer' = "null"
  /\ bufferTimeout' = "null"
  /\ bufferedData' = << >>

\* C12: a failed send to the upstream (live or flush) runs teardown and
\* closes the client with reason 'upstream_ws_error'; a failed send to the
\* client runs teardown and closes the upstream with reason
\* 'client_ws_error'; the failing side itself is not closed by the handler.
C12_SendFailureCloses ==
  /\ [][(LiveSendFails \/ FlushFails)
        => (/\ CleanedUpNext
            /\ Len(serverCloses') = Len(serverCloses) + 1
            /\ serverCloses'[Len(serverCloses')].reason = "upstream_ws_error"
            /\ upstreamCloses' = upstreamCloses)]_vars
  /\ [][ClientSendFails
        => (/\ CleanedUpNext
            /\ Len(upstreamCloses') = Len(upstreamCloses) + 1
            /\ upstreamCloses'[Len(upstreamCloses')].reason = "client_ws_error"
            /\ serverCloses' = serverCloses)]_vars

C12_Witness ==
  /\ "sendFail" \in occurred
  /\ Len(ClientSent) > 0
  /\ Len(serverCloses) = 1
  /\ serverCloses[1].reason = "upstream_ws_error"
  /\ upstreamCloses = << >>
  /\ occurred \cap {"upstreamError", "upstreamClose"} = {}

(* ======================= C13 ============================================ *)
ServerCloseEvent == "serverClose" \notin occurred /\ "serverClose" \in occurred'

UpstreamCloseEvent == "upstreamClose" \notin occurred /\ "upstreamClose" \in occurred'

ServerErrorEvent == "serverError" \notin occurred /\ "serverError" \in occurred'

UpstreamErrorEvent == "upstreamError" \notin occurred /\ "upstreamError" \in occurred'

\* C13: a 'close' event of one peer closes the other peer without a code
\* or reason; an 'error' event closes the other peer with 1011 and the
\* reason naming the failed side; each handler runs teardown, and the
\* upstream handlers reset isUpstreamConnected.
C13_ClosePropagation ==
  /\ [][ServerCloseEvent
        => (/\ CleanedUpNext
            /\ upstreamCloses' = Append(upstreamCloses, [code |-> NoCode, reason |-> ""])
            /\ serverCloses' = serverCloses)]_vars
  /\ [][UpstreamCloseEvent
        => (/\ CleanedUpNext
            /\ ~isUpstreamConnected'
            /\ serverCloses' = Append(serverCloses, [code |-> NoCode, reason |-> ""])
            /\ upstreamCloses' = upstreamCloses)]_vars
  /\ [][ServerErrorEvent
        => (/\ CleanedUpNext
            /\ upstreamCloses' = Append(upstreamCloses,
                                        [code |-> 1011, reason |-> "client_ws_error"])
            /\ serverCloses' = serverCloses)]_vars
  /\ [][UpstreamErrorEvent
        => (/\ CleanedUpNext
            /\ ~isUpstreamConnected'
            /\ serverCloses' = Append(serverCloses,
                                      [code |-> 1011, reason |-> "upstream_ws_error"])
            /\ upstreamCloses' = upstreamCloses)]_vars

C13_Witness ==
  /\ "open" \in occurred
  /\ "upstreamError" \in occurred
  /\ ~isUpstreamConnected
  /\ serverCloses = <<[code |-> 1011, reason |-> "upstream_ws_error"]>>
  /\ keepaliveTimer = "null"

(* ======================= C14 ============================================ *)
\* C14 (as stated): nothing is sent to the upstream while it has not
\* signalled ready; the 'open' handler sends exactly the queued frames and
\* leaves the queue empty; and the upstream is sent something only by the
\* 'open' handler, a client frame or a keepalive tick.
C14_FlushExactlyQueue ==
  /\ []("open" \notin occurred => upstreamSent = << >>)
  /\ [][(~isUpstreamConnected /\ ~OpenFires) => upstreamSent' = upstreamSent]_vars
  /\ [][OpenFires => (/\ upstreamSent' = upstreamSent \o bufferedData
                      /\ bufferedData' = << >>)]_vars
  /\ [][upstreamSent' # upstreamSent => (OpenFires \/ FrameArrives \/ TickRuns)]_vars

\* C14 (amended): as above, but the 'open' handler sends the queued frames
\* in queue order up to the first send that throws: all of them when no
\* send throws, otherwise only those before the failing one, and then it
\* closes the client.
C14_FlushQueuePrefix ==
  /\ []("open" \notin occurred => upstreamSent = << >>)
  /\ [][(~isUpstreamConnected /\ ~OpenFires) => upstreamSent' = upstreamSent]_vars
  /\ [][OpenFires
        => (/\ bufferedData' = << >>
            /\ \/ /\ upstreamSent' = upstreamSent \o bufferedData
                  /\ serverCloses' = serverCloses
               \/ /\ \E n \in 0..(Len(bufferedData) - 1) :
                        upstreamSent' = upstreamSent \o SubSeq(bufferedData, 1, n)
                  /\ serverCloses' # serverCloses)]_vars
  /\ [][upstreamSent' # upstreamSent => (OpenFires \/ FrameArrives \/ TickRuns)]_vars

C14_Witness ==
  /\ "open" \in occurred
  /\ clientFrames = 2
  /\ upstreamSent = <<1, 2>>
  /\ bufferedData = << >>
  /\ ticks = 0
  /\ "sendFail" \notin occurred

(* ======================= C15 ============================================ *)
\* the step runs cleanup: every handler that closes a socket does, except
\* the deadline callback
CleanupRuns == RelayCloses /\ ~DeadlineFires

\* C15: teardown takes effect at most once: a run of cleanup in a session
\* in which cleanup has already run finds both timers disarmed and the
\* queue empty and changes nothing (stated for sessions in which no send
\* has thrown and no client frame arrived after the relay closed the
\* client socket).
C15_TeardownOnce ==
  [][(/\ Terminated
      /\ CleanupRuns
      /\ lateFrames = 0
      /\ "sendFail" \notin occurred')
     => (/\ keepaliveTimer' = keepaliveTimer
         /\ bufferTimeout' = bufferTimeout
         /\ bufferedData' = bufferedData)]_vars

(* ======================= C16 ============================================ *)
\* C16: between handlers, isUpstreamConnected = TRUE implies that the
\* pending queue is empty.
C16_ReadyImpliesDrained ==
  isUpstreamConnected => bufferedData = << >>

(* ======================= C17 ============================================ *)
Range(q) == {q[i] : i \in 1..Len(q)}

\* C17: the 'open' handler either sends the whole queue (possibly empty),
\* starts the keepalive timer and leaves the deadline cancelled, or a send
\* throws: then only the frames before it were sent, the queue is
\* discarded, the keepalive timer is not started and the client is closed
\* with 'upstream_ws_error'; a frame that was dropped is never sent later.
C17_FlushAbort ==
  /\ [][OpenFires
        => IF upstreamSent' = upstreamSent \o bufferedData
             THEN /\ keepaliveTimer' = "armed"
                  /\ bufferTimeout' = "null"
                  /\ bufferedData' = << >>
                  /\ serverCloses' = serverCloses
             ELSE /\ \E n \in 0..(Len(bufferedData) - 1) :
                        upstreamSent' = upstreamSent \o SubSeq(bufferedData, 1, n)
                  /\ bufferedData' = << >>
                  /\ keepaliveTimer' = "null"
                  /\ bufferTimeout' = "null"
                  /\ Len(serverCloses') = Len(serverCloses) + 1
                  /\ serverCloses'[Len(serverCloses')].reason = "upstream_ws_error"]_vars
  /\ [][\A f \in 1..clientFrames :
           (f \notin Range(ClientSent) /\ f \notin Range(bufferedData))
           => f \notin Range(ClientSent')]_vars

C17_Witness ==
  /\ "sendFail" \in occurred
  /\ clientFrames = 3
  /\ lateFrames = 0
  /\ upstreamFrames = 0
  /\ upstreamSent = <<1>>
  /\ bufferedData = << >>
  /\ keepaliveTimer = "null"
  /\ Len(serverCloses) = 1
  /\ serverCloses[1].reason = "upstream_ws_error"

(* ======================= C18 ============================================ *)
\* C18: a keepalive tick that sends nothing (the send threw, or the
\* upstream was not open) disarms the keepalive timer and changes nothing
\* else: queue, deadline timer, isUpstreamConnected and both sockets are
\* untouched and no close is issued; a failed forward of a client or an
\* upstream frame runs teardown and closes a socket.
C18_TickFailureOnlyDisarms ==
  /\ [][(TickRuns /\ upstreamSent' = upstreamSent)
        => (/\ keepaliveTimer' = "null"
            /\ UNCHANGED <<bufferedData, bufferTimeout, isUpstreamConnected,
                           upstreamReadyState, serverReadyState, serverSent,
                           upstreamCloses, serverCloses>>)]_vars
  /\ [][(LiveSendFails \/ FlushFails \/ ClientSendFails)
        => (RelayCloses /\ CleanedUpNext)]_vars

C18_Witness ==
  /\ "keepaliveFail" \in occurred
  /\ ticks = 1
  /\ keepaliveTimer = "null"
  /\ isUpstreamConnected
  /\ upstreamReadyState = "OPEN"
  /\ serverReadyState = "OPEN"
  /\ serverCloses = << >>
  /\ upstreamCloses = << >>
  /\ ~Terminated

(* ======================= C19 ============================================ *)
\* the step is a client frame taking the buffer branch: the upstream is
\* not ready (isUpstreamConnected false, or the upstream socket not open)
BufferBranch ==
  FrameArrives /\ ~forwardLive(isUpstreamConnected, upstreamReadyState)

SessionUnchanged ==
  UNCHANGED <<bufferedData, bufferTimeout, isUpstreamConnected, keepaliveTimer,
              upstreamReadyState, serverReadyState, upstreamSent, serverSent,
              upstreamCloses, serverCloses, clientFrames, ticks, lateFrames,
              occurred>>

\* the frames sent to the client are in arrival order
ServerSentInOrder ==
  \A i, j \in 1..Len(serverSent) : i < j => serverSent[i] < serverSent[j]

====
